---------------------------- MODULE Spec2Model ----------------------------
(***************************************************************************)
(* Verification model of natiiix/codeDuplicationParser.                    *)
(*                                                                         *)
(*   TreeSpec      TreeNode.__init__ over a parsed syntax tree             *)
(*                 (code_duplication/src/common/TreeNode.py)               *)
(*   PatternSpec   PatternNode construction, add_nodes, add_children and   *)
(*                 __eq__ / __ne__                                         *)
(*                 (code_duplication/src/common/PatternNode.py)            *)
(*   RegistrySpec  analysis threads running _extract_patterns /            *)
(*                 _get_pattern_id in their own transactions               *)
(*                 (web/analyzer.py)                                       *)
(*   FindSpec      _find_repos_by_metadata, one query after the other      *)
(*                 (web/analyzer.py)                                       *)
(*   AnalyzerSpec  get_repo_analysis requests and the analyze_repo thread  *)
(*                 they start, over one database (web/analyzer.py)         *)
(***************************************************************************)
EXTENDS Integers, Sequences, FiniteSets, TLC

(***************************************************************************)
(* Bounds of the model.                                                    *)
(***************************************************************************)
\* Number of node objects the parser may allocate for one syntax tree.
MaxNodes == 5
\* Number of extra references to an already allocated node object (the
\* parser reusing one object in two places of the tree).
MaxShared == 1
\* Number of PatternNode calls (constructor, add_nodes, add_children) in a run.
MaxCalls == 5
\* Number of nodes the modules of one commit hold.
MaxCommitNodes == 2
\* Number of repository rows other requests insert while one
\* _find_repos_by_metadata call runs.
MaxArrivals == 1

VARIABLES
    \* ---- TreeSpec ----
    n_nodes,    \* number of node objects of the parsed syntax tree; root is 1
    fields,     \* fields[x]: the child objects of x, as iter_child_nodes yields them
    phase,      \* "parse" while the tree is produced, "built" after TreeNode(root)
    wrappers,   \* wrappers[x]: the TreeNode built over node x
    \* ---- PatternSpec ----
    objs,       \* objs[p]: the fields of PatternNode object p (allocation order)
    last,       \* the most recent PatternNode call and its arguments
    \* ---- RegistrySpec ----
    patterns,           \* rows of table patterns (written by a live transaction)
    pattern_instances,  \* rows of table pattern_instances, in insertion order
    id_seq,             \* last value handed out by the sequence of patterns.id
    committed,          \* the analysis threads whose transaction has committed
    pc,                 \* pc[t]: where thread t stands in _extract_patterns
    visited,            \* visited[t]: the nodes the loop has taken so far
    pattern_id,         \* pattern_id[t]: the local variable of _get_pattern_id
    waited,             \* waited[t]: the INSERT of t had to wait for another transaction
    \* ---- FindSpec, AnalyzerSpec ----
    repos,      \* rows of table repos (joined with states: status is the name)
    commits,    \* rows of table commits (committed)
    clusters,   \* rows of table clusters (committed)
    origins,    \* rows of table origins (committed)
    tx,         \* tx[t]: the statements of the open results transaction of t
    conn,       \* conn[p]: the local variable conn of process p
    unbound,    \* the processes that read conn while it was not assigned
    started,    \* the Thread(target=analyze_repo, ...).start() calls so far
    alocal,     \* alocal[t]: locals of analyze_repo in thread t
    wpc,        \* wpc[w]: where request w stands in get_repo_analysis
    wlocal,     \* wlocal[w]: locals of get_repo_analysis in request w
    find        \* locals of the _find_repos_by_metadata call of FindSpec

treeVars == <<n_nodes, fields, phase, wrappers>>
patVars == <<objs, last>>
regVars == <<patterns, pattern_instances, id_seq, committed, pc, visited,
             pattern_id, waited>>
webVars == <<repos, commits, clusters, origins, tx, conn, unbound, started,
             alocal, wpc, wlocal, find>>
vars == <<n_nodes, fields, phase, wrappers, objs, last,
          patterns, pattern_instances, id_seq, committed, pc, visited,
          pattern_id, waited,
          repos, commits, clusters, origins, tx, conn, unbound, started,
          alocal, wpc, wlocal, find>>

(***************************************************************************)
(* Helpers on sequences.                                                   *)
(***************************************************************************)
Range(s) == {s[i] : i \in DOMAIN s}

\* [x for x in s if Keep(x)], a Python list comprehension with a filter.
RECURSIVE Filter(_, _)
Filter(s, keep) ==
    IF s = <<>> THEN <<>>
    ELSE IF Head(s) \in keep THEN <<Head(s)>> \o Filter(Tail(s), keep)
         ELSE Filter(Tail(s), keep)

RECURSIVE SumSeq(_)
SumSeq(s) == IF s = <<>> THEN 0 ELSE Head(s) + SumSeq(Tail(s))

\* Number of positions of s holding x.
Occurrences(s, x) == Cardinality({i \in DOMAIN s : s[i] = x})

(***************************************************************************)
(* TreeNode.py                                                             *)
(***************************************************************************)
Nodes == 1..n_nodes
Root == 1

\* ast.walk: breadth first, a deque of nodes still to yield; every node popped
\* is yielded and its children are appended. No visited set is kept.
RECURSIVE WalkFrom(_, _)
WalkFrom(todo, out) ==
    IF todo = <<>> THEN out
    ELSE WalkFrom(Tail(todo) \o fields[Head(todo)], Append(out, Head(todo)))

walk(node) == WalkFrom(<<node>>, <<>>)

\* self.all_nodes = list(walk(self.node))
all_nodes_of(node) == walk(node)

\* self.child_nodes = [x for x in self.all_nodes if x is not self.node]
child_nodes_of(node) == Filter(all_nodes_of(node), Nodes \ {node})

\* Faulty variant: the set is assigned in the loop instead of updated, so only the
\* descendants of the last child_node are kept.
grandchild_nodes_last_only(node) ==
    LET cn == child_nodes_of(node)
    IN  IF cn = <<>> THEN {} ELSE Range(walk(cn[Len(cn)])) \ {cn[Len(cn)]}

\* Faulty variant: the walk of a child is not stripped of the child itself.
grandchild_nodes_with_self(node) ==
    UNION {Range(walk(c)) : c \in Range(child_nodes_of(node))}

\* grandchild_nodes: for each child_node, every x of walk(child_node) that is
\* not child_node itself.
grandchild_nodes_of(node) ==
    UNION {Range(walk(c)) \ {c} : c \in Range(child_nodes_of(node))}

\* The nodes x for which direct_children holds a TreeNode(x), in order.
direct_children_of(node) ==
    Filter(child_nodes_of(node), Nodes \ grandchild_nodes_of(node))

\* The node objects a TreeNode is constructed over when TreeNode(node) is
\* called: node itself and, recursively, every direct child.
RECURSIVE Constructed(_)
Constructed(node) ==
    {node} \cup UNION {Constructed(d) : d \in Range(direct_children_of(node))}

\* TreeNode.__init__: the fields of the wrapper built over node.
TreeNode(node) ==
    [node            |-> node,
     all_nodes       |-> all_nodes_of(node),
     child_nodes     |-> child_nodes_of(node),
     direct_children |-> direct_children_of(node)]

\* The objects reachable from x through fields (x excluded unless on a cycle).
RECURSIVE Below(_)
Below(x) == Range(fields[x]) \cup UNION {Below(c) : c \in Range(fields[x])}

\* The parser allocates a new node object as the last child of p.
ParseChild(p) ==
    /\ phase = "parse"
    /\ n_nodes < MaxNodes
    /\ n_nodes' = n_nodes + 1
    /\ fields' = [fields EXCEPT ![p] = Append(@, n_nodes + 1)]
    /\ UNCHANGED <<phase, wrappers>>
    /\ UNCHANGED <<patVars, regVars, webVars>>

NumShared == SumSeq([x \in 1..MaxNodes |-> Len(fields[x])]) - (n_nodes - 1)

\* The parser reuses the existing object s as one more child of p (CPython
\* hands out one object per expression context and operator kind).
ParseShared(p, s) ==
    /\ phase = "parse"
    /\ NumShared < MaxShared
    /\ s # Root
    /\ p \notin Below(s) \cup {s}
    /\ fields' = [fields EXCEPT ![p] = Append(@, s)]
    /\ UNCHANGED <<n_nodes, phase, wrappers>>
    /\ UNCHANGED <<patVars, regVars, webVars>>

\* TreeNode(root): builds the wrapper of the root and of every direct child,
\* recursively.
Build ==
    /\ phase = "parse"
    /\ phase' = "built"
    /\ wrappers' = [x \in Constructed(Root) |-> TreeNode(x)]
    /\ UNCHANGED <<n_nodes, fields>>
    /\ UNCHANGED <<patVars, regVars, webVars>>

TreeIdle ==
    /\ n_nodes = 1
    /\ fields = [x \in 1..MaxNodes |-> <<>>]
    /\ wrappers = <<>>

PatternIdle ==
    /\ objs = <<>>
    /\ last = [op |-> "none"]

\* The analysis threads (one per repository under analysis).
Threads == {"t1", "t2"}

RegistryIdle ==
    /\ patterns = {}
    /\ pattern_instances = <<>>
    /\ id_seq = 0
    /\ committed = {}
    /\ pc = [t \in Threads |-> "idle"]
    /\ visited = [t \in Threads |-> <<>>]
    /\ pattern_id = [t \in Threads |-> <<>>]
    /\ waited = [t \in Threads |-> FALSE]

\* The web requests, each one call of get_repo_analysis, and all processes
\* holding a local variable conn.
Requests == {"w1", "w2"}
Procs == Threads \cup Requests

\* Locals of a get_repo_analysis call before any is assigned (an optional
\* value is <<>> for None / unassigned and <<v>> for v), and of a thread
\* that was not started.
NoRequestLocals ==
    [path |-> <<>>, repo_info |-> <<>>, repo_id |-> <<>>, repos |-> <<>>,
     repo_dict |-> <<>>, commit_id |-> <<>>, outcome |-> <<>>, late |-> FALSE]
NoThreadLocals ==
    [repo_info |-> <<>>, repo_id |-> <<>>, cloned |-> <<>>, modules |-> <<>>,
     result |-> <<>>, cluster |-> 0, handled |-> FALSE]

WebIdle ==
    /\ repos = {}
    /\ commits = {}
    /\ clusters = {}
    /\ origins = {}
    /\ tx = [t \in Threads |-> <<>>]
    /\ conn = [p \in Procs |-> "unbound"]
    /\ unbound = {}
    /\ started = <<>>
    /\ alocal = [t \in Threads |-> NoThreadLocals]
    /\ wpc = [w \in Requests |-> "idle"]
    /\ wlocal = [w \in Requests |-> NoRequestLocals]
    /\ find = [pc |-> "idle"]

TreeInit ==
    /\ TreeIdle
    /\ phase = "parse"
    /\ PatternIdle
    /\ RegistryIdle
    /\ WebIdle

TreeNext ==
    \/ \E p \in Nodes : ParseChild(p)
    \/ \E p \in Nodes, s \in Nodes : ParseShared(p, s)
    \/ Build

TreeSpec == TreeInit /\ [][TreeNext]_vars

\* The input is a tree: no node object is referenced from two places.
IsTree ==
    \A x \in Nodes :
        SumSeq([p \in 1..MaxNodes |-> Occurrences(fields[p], x)]) <= 1

Built == phase = "built"

SharedValues == {"", "Name"}

\* Python's None, and a string s, as the optional value argument.
None == <<>>
Str(s) == <<s>>
ValueArgs == {None} \cup {Str(s) : s \in SharedValues}

\* Truth value of the left operand of `value or ...`: None and the empty
\* string are false.
Truthy(value) == value # None /\ value # Str("")

\* f"Hole(weight={weight})"
HoleMarker(weight) == "Hole(weight=" \o ToString(weight) \o ")"

\* PatternNode.__init__
PatternNode(node1, node2, weight, value) ==
    [nodes    |-> <<node1, node2>>,
     weight   |-> weight,
     value    |-> IF Truthy(value) THEN value[1] ELSE HoleMarker(weight),
     children |-> <<>>]

\* Faulty variant: the member list is assigned, not extended.
add_nodes_assign(self, nodes) == [objs[self] EXCEPT !.nodes = nodes]

\* PatternNode.add_nodes: the fields of self after the call.
add_nodes(self, nodes) == [objs[self] EXCEPT !.nodes = @ \o nodes]

\* PatternNode.add_children: the fields of self after the call.
add_children(self, children) == [objs[self] EXCEPT !.children = @ \o children]

RECURSIVE PatternNode_eq(_, _), PatternNode_ne(_, _)

\* Faulty variant: the weight field is compared as well.
PatternNode_eq_weight(self, other) ==
    IF \/ objs[other].value # objs[self].value
       \/ objs[other].weight # objs[self].weight
       \/ Len(objs[other].children) # Len(objs[self].children)
    THEN FALSE
    ELSE \A i \in DOMAIN objs[other].children :
             ~PatternNode_ne(objs[other].children[i], objs[self].children[i])

\* Faulty variant: the length test lets a shorter children list of other through.
PatternNode_eq_shorter(self, other) ==
    IF \/ objs[other].value # objs[self].value
       \/ Len(objs[other].children) > Len(objs[self].children)
    THEN FALSE
    ELSE \A i \in DOMAIN objs[other].children :
             ~PatternNode_ne(objs[other].children[i], objs[self].children[i])

\* PatternNode.__eq__ (every object of the model is a PatternNode): False on a
\* different value or children count; then each child c of other is compared
\* with c != self.children[i], and the first difference returns False.
PatternNode_eq(self, other) ==
    IF \/ objs[other].value # objs[self].value
       \/ Len(objs[other].children) # Len(objs[self].children)
    THEN FALSE
    ELSE \A i \in DOMAIN objs[other].children :
             ~PatternNode_ne(objs[other].children[i], objs[self].children[i])

\* PatternNode.__ne__
PatternNode_ne(self, other) == ~PatternNode_eq(self, other)

Patterns == DOMAIN objs

\* The objects reachable from p through children.
RECURSIVE Under(_)
Under(p) ==
    Range(objs[p].children) \cup UNION {Under(c) : c \in Range(objs[p].children)}

\* Calls made so far: one per object, one per element added by add_nodes and
\* add_children (each call of the model adds one element).
Calls ==
    Len(objs) +
    SumSeq([p \in Patterns |-> (Len(objs[p].nodes) - 2) + Len(objs[p].children)])

\* p = PatternNode(node1, node2, weight, value)
New(node1, node2, weight, value) ==
    /\ phase = "pattern"
    /\ Calls < MaxCalls
    /\ objs' = Append(objs, PatternNode(node1, node2, weight, value))
    /\ last' = [op |-> "init", self |-> Len(objs) + 1, node1 |-> node1,
                node2 |-> node2, weight |-> weight, value |-> value]
    /\ UNCHANGED <<treeVars, regVars, webVars>>

\* self.add_nodes(*nodes)
AddNodes(self, nodes) ==
    /\ phase = "pattern"
    /\ Calls < MaxCalls
    /\ objs' = [objs EXCEPT ![self] = add_nodes(self, nodes)]
    /\ last' = [op |-> "add_nodes", self |-> self, nodes |-> nodes]
    /\ UNCHANGED <<treeVars, regVars, webVars>>

\* self.add_children(*children); the structure stays a finite (acyclic) one.
AddChildren(self, children) ==
    /\ phase = "pattern"
    /\ Calls < MaxCalls
    /\ \A c \in Range(children) : self \notin Under(c) \cup {c}
    /\ objs' = [objs EXCEPT ![self] = add_children(self, children)]
    /\ last' = [op |-> "add_children", self |-> self, children |-> children]
    /\ UNCHANGED <<treeVars, regVars, webVars>>

\* The constructor calls of the model, <<node1, node2, weight, value>>: a hole
\* and a shared value over the TreeNodes a and b in either order, with
\* different weights, and the empty string as the shared value.
CtorArgs ==
    {<<"a", "b", 1, None>>,
     <<"a", "b", 1, Str("Name")>>,
     <<"b", "a", 2, Str("Name")>>,
     <<"a", "b", 2, Str("")>>}

\* The argument lists of one add_nodes / add_children call: a further
\* occurrence c, an existing PatternNode.
NodeArgs == {<<"c">>}
ChildArgs == {<<c>> : c \in Patterns}

PatternInit ==
    /\ TreeIdle
    /\ phase = "pattern"
    /\ PatternIdle
    /\ RegistryIdle
    /\ WebIdle

PatternNext ==
    \/ \E a \in CtorArgs : New(a[1], a[2], a[3], a[4])
    \/ \E p \in Patterns, ns \in NodeArgs : AddNodes(p, ns)
    \/ \E p \in Patterns, cs \in ChildArgs : AddChildren(p, cs)

PatternSpec == PatternInit /\ [][PatternNext]_vars

\* The skeleton of p: its value and the skeletons of its children, in order.
RECURSIVE Skeleton(_)
Skeleton(p) ==
    <<objs[p].value, [i \in DOMAIN objs[p].children |-> Skeleton(objs[p].children[i])]>>

\* C3: two PatternNodes compare equal if and only if their values are equal
\* and their children lists have the same length and are equal position by
\* position, recursively (equal skeletons); nodes and weight take no part, so
\* nodes with equal skeletons are equal whatever their nodes and weight.
C3_EqIsSkeletonEquality ==
    \A p \in Patterns, q \in Patterns :
        /\ PatternNode_eq(p, q) <=> Skeleton(p) = Skeleton(q)
        /\ PatternNode_eq(p, q) <=>
               /\ objs[p].value = objs[q].value
               /\ Len(objs[p].children) = Len(objs[q].children)
               /\ \A i \in DOMAIN objs[p].children :
                      PatternNode_eq(objs[p].children[i], objs[q].children[i])

C3_Witness ==
    \E p \in Patterns, q \in Patterns, r \in Patterns :
        /\ p # q
        /\ PatternNode_eq(p, q)
        /\ objs[p].weight # objs[q].weight
        /\ objs[p].nodes # objs[q].nodes
        /\ Len(objs[p].children) = 1
        /\ ~PatternNode_eq(p, r)
        /\ objs[p].value = objs[r].value

\* C7: for every PatternNode p, after any sequence of construction,
\* add_children and add_nodes calls, p.weight >= the sum of the weights of
\* p.children.
C7_WeightCoversChildren ==
    \A p \in Patterns :
        objs[p].weight >=
            SumSeq([i \in DOMAIN objs[p].children |-> objs[objs[p].children[i]].weight])

\* A step of add_nodes: the call recorded in last' changed the object.
AddNodesStep == last'.op = "add_nodes" /\ objs' # objs

\* C8 (frame): add_nodes appends its arguments to nodes of self and leaves
\* value, weight and children of self, every other object, and the outcome of
\* every comparison unchanged.
C8_AddNodesFrame ==
    AddNodesStep =>
        LET self == last'.self
        IN  /\ DOMAIN objs' = DOMAIN objs
            /\ objs'[self].nodes = objs[self].nodes \o last'.nodes
            /\ objs'[self].value = objs[self].value
            /\ objs'[self].weight = objs[self].weight
            /\ objs'[self].children = objs[self].children
            /\ \A q \in Patterns \ {self} : objs'[q] = objs[q]
            /\ \A x \in Patterns, y \in Patterns :
                   PatternNode_eq(x, y)' = PatternNode_eq(x, y)

\* C8 (equality): PatternNodes with the same value and the same children are
\* equal whatever their member lists hold and in whatever order.
C8_EqIgnoresMembers ==
    \A p \in Patterns, q \in Patterns :
        (objs[p].value = objs[q].value /\ objs[p].children = objs[q].children)
            => PatternNode_eq(p, q)

\* C8: extending a pattern with further occurrences appends them to nodes and
\* leaves value, weight and children unchanged, and equality does not depend
\* on the member list or its order: a pattern built from (a, b) and extended
\* with c equals one built from (b, a) and extended with c.
C8_AddNodesKeepsSkeleton == [][C8_AddNodesFrame]_vars /\ []C8_EqIgnoresMembers

C8_Witness ==
    /\ last.op = "add_nodes"
    /\ \E p \in Patterns, q \in Patterns :
           /\ objs[p].nodes = <<"a", "b", "c">>
           /\ objs[q].nodes = <<"b", "a", "c">>
           /\ objs[p].value = objs[q].value
           /\ objs[p].children = objs[q].children
           /\ objs[p].weight # objs[q].weight
           /\ PatternNode_eq(p, q)

\* C9: the value of a newly constructed PatternNode is the shared string
\* passed, for every string including the empty one, and the hole marker
\* embedding the weight exactly when no shared value is passed; the new node
\* has no children and exactly the two given member nodes.
C9_ValueIsSharedString ==
    last.op = "init" =>
        LET o == objs[last.self]
        IN  /\ last.value # None => o.value = last.value[1]
            /\ last.value = None <=> o.value = HoleMarker(last.weight)
            /\ o.children = <<>>
            /\ o.nodes = <<last.node1, last.node2>>

\* C10: PatternNode equality is an equivalence relation: reflexive, symmetric
\* and transitive, and p != q is the negation of p == q.
C10_EqIsEquivalence ==
    \A p \in Patterns, q \in Patterns :
        /\ PatternNode_eq(p, p)
        /\ PatternNode_eq(p, q) => PatternNode_eq(q, p)
        /\ PatternNode_ne(p, q) <=> ~PatternNode_eq(p, q)
        /\ \A r \in Patterns :
               (PatternNode_eq(p, q) /\ PatternNode_eq(q, r)) => PatternNode_eq(p, r)

C10_Witness ==
    \E p \in Patterns, q \in Patterns, r \in Patterns :
        /\ p # q /\ q # r /\ p # r
        /\ PatternNode_eq(p, q) /\ PatternNode_eq(q, r)
        /\ objs[p].weight # objs[q].weight
        /\ \E c \in Patterns :
               /\ Len(objs[c].children) = 1
               /\ Len(objs[objs[c].children[1]].children) = 0
               /\ objs[c].value = objs[objs[c].children[1]].value
               /\ PatternNode_ne(c, objs[c].children[1])

(***************************************************************************)
(* web/analyzer.py: _get_md5, _get_pattern_id, _extract_patterns, run by   *)
(* each analysis thread inside `with conn.transaction()` on a connection   *)
(* of its own.  The database is PostgreSQL at its default isolation level  *)
(* (read committed): a statement sees the rows of committed transactions   *)
(* and of its own.                                                         *)
(***************************************************************************)
\* The nodes the modules of a commit may hold: two structures, a third one
\* whose dump has the hash of the first, each at some place of a file.
CommitNodes ==
    {[dump |-> "d1", weight |-> 1, class |-> "Name", origin |-> <<"a.py", 1, 0>>],
     [dump |-> "d2", weight |-> 2, class |-> "Call", origin |-> <<"a.py", 1, 0>>],
     [dump |-> "d3", weight |-> 2, class |-> "Expr", origin |-> <<"b.py", 2, 4>>]}

\* _get_md5: a digest of fixed length, so distinct dumps may share one.
_get_md5(dump) ==
    CASE dump = "d1" -> "h1"
      [] dump = "d2" -> "h2"
      [] dump = "d3" -> "h1"

\* commit_id of the commit row each thread inserted before pattern extraction.
commit_id == [t \in Threads |-> IF t = "t1" THEN "c1" ELSE "c2"]

\* The node the loop of _extract_patterns is at.
n(t) == visited[t][Len(visited[t])]

\* The rows of patterns a statement of thread t sees.
VisiblePatterns(t) == {r \in patterns : r.xid \in committed \cup {t}}

\* patterns.hash is unique: the rows that make an INSERT of this hash by t a
\* conflict.
HashConflict(t, hash) == {r \in VisiblePatterns(t) : r.hash = hash}

\* patterns.hash is unique: a row of this hash written by a transaction still
\* in progress makes the INSERT of t wait for that transaction to end.
MustWait(t, hash) ==
    \E r \in patterns : r.hash = hash /\ r.xid \notin committed \cup {t}

\* INSERT INTO patterns ... ON CONFLICT DO NOTHING RETURNING id, as conn.one
\* returns it: the new id, or None when nothing was inserted.
insert_pattern_returning(t, node) ==
    IF HashConflict(t, _get_md5(node.dump)) # {} THEN None ELSE Str(id_seq + 1)

\* Faulty variant: the SELECT after an INSERT that returned None is left out.
select_pattern_id_skipped(t, node) == None

\* Faulty variant: the row is looked up by its dump instead of its hash.
select_pattern_id_by_dump(t, node) ==
    LET rows == {r \in VisiblePatterns(t) : r.dump = node.dump}
    IN  IF rows = {} THEN None ELSE Str((CHOOSE r \in rows : TRUE).id)

\* SELECT id FROM patterns WHERE "hash" = %s, as conn.one returns it.
select_pattern_id(t, node) ==
    LET rows == {r \in VisiblePatterns(t) : r.hash = _get_md5(node.dump)}
    IN  IF rows = {} THEN None ELSE Str((CHOOSE r \in rows : TRUE).id)

\* Faulty variant: an occurrence already recorded is not recorded again.
insert_pattern_instance_once(row) ==
    IF row \in Range(pattern_instances) THEN pattern_instances
    ELSE Append(pattern_instances, row)

\* INSERT INTO pattern_instances ...: the table after the statement.
insert_pattern_instance(row) == Append(pattern_instances, row)

\* for n in nodes: the iterator yields the next node of the commit's modules.
NextNode(t, node) ==
    /\ pc[t] = "next"
    /\ Len(visited[t]) < MaxCommitNodes
    /\ visited' = [visited EXCEPT ![t] = Append(@, node)]
    /\ pc' = [pc EXCEPT ![t] = "insert"]
    /\ UNCHANGED <<patterns, pattern_instances, id_seq, committed, pattern_id, waited>>
    /\ UNCHANGED <<treeVars, patVars, webVars>>

\* The INSERT of _get_pattern_id is issued and waits for the transaction that
\* wrote a row of the same hash.
Wait(t) ==
    /\ pc[t] = "insert"
    /\ MustWait(t, _get_md5(n(t).dump))
    /\ ~waited[t]
    /\ waited' = [waited EXCEPT ![t] = TRUE]
    /\ UNCHANGED <<patterns, pattern_instances, id_seq, committed, pc, visited, pattern_id>>
    /\ UNCHANGED <<treeVars, patVars, webVars>>

\* _get_pattern_id, the INSERT: a row is written unless one of this hash
\* exists; the sequence of patterns.id advances either way.
Insert(t) ==
    /\ pc[t] = "insert"
    /\ ~MustWait(t, _get_md5(n(t).dump))
    /\ LET res == insert_pattern_returning(t, n(t))
       IN  /\ pattern_id' = [pattern_id EXCEPT ![t] = res]
           /\ patterns' =
                  IF res = None THEN patterns
                  ELSE patterns \cup
                       {[id |-> res[1], dump |-> n(t).dump, hash |-> _get_md5(n(t).dump),
                         weight |-> n(t).weight, class |-> n(t).class, xid |-> t]}
           /\ pc' = [pc EXCEPT ![t] = IF res = None THEN "select" ELSE "record"]
    /\ id_seq' = id_seq + 1
    /\ UNCHANGED <<pattern_instances, committed, visited, waited>>
    /\ UNCHANGED <<treeVars, patVars, webVars>>

\* _get_pattern_id, `if pattern_id is None:` the row is selected by its hash.
Select(t) ==
    /\ pc[t] = "select"
    /\ pattern_id' = [pattern_id EXCEPT ![t] = select_pattern_id(t, n(t))]
    /\ pc' = [pc EXCEPT ![t] = "record"]
    /\ UNCHANGED <<patterns, pattern_instances, id_seq, committed, visited, waited>>
    /\ UNCHANGED <<treeVars, patVars, webVars>>

\* _extract_patterns: the occurrence of the node is recorded with the id
\* _get_pattern_id returned, and the loop goes on.
Record(t) ==
    /\ pc[t] = "record"
    /\ pattern_instances' =
           insert_pattern_instance(
               [pattern_id |-> pattern_id[t], commit_id |-> commit_id[t],
                file |-> n(t).origin[1], line |-> n(t).origin[2],
                col_offset |-> n(t).origin[3], xid |-> t])
    /\ pc' = [pc EXCEPT ![t] = "next"]
    /\ UNCHANGED <<patterns, id_seq, committed, visited, pattern_id, waited>>
    /\ UNCHANGED <<treeVars, patVars, webVars>>

\* The loop is over (the modules of a commit hold at least one node) and the
\* transaction block of analyze_repo ends: COMMIT.
Commit(t) ==
    /\ pc[t] = "next"
    /\ visited[t] # <<>>
    /\ committed' = committed \cup {t}
    /\ pc' = [pc EXCEPT ![t] = "done"]
    /\ UNCHANGED <<patterns, pattern_instances, id_seq, visited, pattern_id, waited>>
    /\ UNCHANGED <<treeVars, patVars, webVars>>

\* A statement raises psycopg2.Error (connection lost, deadlock detected, ...):
\* the transaction block rolls back what the thread wrote; values taken from
\* the sequence stay taken.
Fail(t) ==
    /\ pc[t] \in {"insert", "select", "record"}
    /\ patterns' = {r \in patterns : r.xid # t}
    /\ pattern_instances' = SelectSeq(pattern_instances, LAMBDA r : r.xid # t)
    /\ pc' = [pc EXCEPT ![t] = "failed"]
    /\ UNCHANGED <<id_seq, committed, visited, pattern_id, waited>>
    /\ UNCHANGED <<treeVars, patVars, webVars>>

RegistryInit ==
    /\ TreeIdle
    /\ phase = "registry"
    /\ PatternIdle
    /\ patterns = {}
    /\ pattern_instances = <<>>
    /\ id_seq = 0
    /\ committed = {}
    /\ pc = [t \in Threads |-> "next"]
    /\ visited = [t \in Threads |-> <<>>]
    /\ pattern_id = [t \in Threads |-> None]
    /\ waited = [t \in Threads |-> FALSE]
    /\ WebIdle

RegistryNext ==
    \E t \in Threads :
        \/ \E node \in CommitNodes : NextNode(t, node)
        \/ Wait(t)
        \/ Insert(t)
        \/ Select(t)
        \/ Record(t)
        \/ Commit(t)
        \/ Fail(t)

RegistrySpec == RegistryInit /\ [][RegistryNext]_vars

\* The rows of patterns holding a hash, and the rows a thread recorded.
RowsOfHash(hash) == {r \in patterns : r.hash = hash}
InstancesOf(t) == SelectSeq(pattern_instances, LAMBDA r : r.commit_id = commit_id[t])

\* The nodes of thread t whose occurrence is recorded: all visited ones but
\* the one a call of _get_pattern_id is working on.
Recorded(t) ==
    IF pc[t] \in {"insert", "select", "record"}
    THEN SubSeq(visited[t], 1, Len(visited[t]) - 1)
    ELSE visited[t]

\* C4 (the steps of one call): an INSERT for a hash that has a row writes
\* nothing and the call goes on to select that row; an INSERT for a hash
\* without a row writes exactly one row, of this dump and hash, and returns
\* its id; the SELECT changes no row and returns the id of the row of the hash.
C4_CallSteps ==
    \A t \in Threads :
        LET hash == _get_md5(n(t).dump)
        IN  /\ (pc[t] = "insert" /\ pc'[t] \in {"select", "record"}) =>
                   IF RowsOfHash(hash) # {}
                   THEN patterns' = patterns /\ pc'[t] = "select"
                   ELSE /\ pc'[t] = "record"
                        /\ \E r \in patterns' :
                               /\ r \notin patterns
                               /\ patterns' = patterns \cup {r}
                               /\ r.hash = hash /\ r.dump = n(t).dump
                               /\ pattern_id'[t] = Str(r.id)
            /\ (pc[t] = "select" /\ pc'[t] = "record") =>
                   /\ patterns' = patterns
                   /\ \E r \in RowsOfHash(hash) : pattern_id'[t] = Str(r.id)

\* C4 (what a call returns): never None, and calls of one thread for the same
\* dump return the same id.
C4_Returned ==
    \A t \in Threads :
        /\ pc[t] = "record" => pattern_id[t] # None
        /\ pc[t] # "failed" =>
               \A i \in DOMAIN InstancesOf(t), j \in DOMAIN InstancesOf(t) :
                   /\ InstancesOf(t)[i].pattern_id # None
                   /\ visited[t][i].dump = visited[t][j].dump =>
                          InstancesOf(t)[i].pattern_id = InstancesOf(t)[j].pattern_id

\* C4: interning is idempotent in sequence: _get_pattern_id for a hash that
\* has a pattern row returns the id of that row and inserts nothing, for a
\* hash without a row it inserts one row and returns its id; it never returns
\* None, and successive calls with the same dump return the same id.
C4_InternIdempotent == [][C4_CallSteps]_vars /\ []C4_Returned

\* One thread alone has interned the same dump twice, a second dump of the
\* same hash aside: one row, one id.
C4_Witness ==
    \E t \in Threads :
        /\ \A u \in Threads \ {t} : visited[u] = <<>>
        /\ pc[t] = "record"
        /\ Len(visited[t]) = 2
        /\ visited[t][1].dump = visited[t][2].dump
        /\ Cardinality(patterns) = 1
        /\ Len(InstancesOf(t)) = 1
        /\ InstancesOf(t)[1].pattern_id = pattern_id[t]
        /\ id_seq = 2

\* C5: under any interleaving of the threads' _get_pattern_id calls, the
\* patterns table holds at most one row per hash in every reachable state,
\* and every caller that returns holds the id of the one row of its hash; so
\* does every occurrence recorded by a transaction that has not failed.
C5_OneRowPerHash ==
    /\ \A r1 \in patterns, r2 \in patterns : r1.hash = r2.hash => r1 = r2
    /\ \A t \in Threads :
           /\ pc[t] = "record" =>
                  \E r \in RowsOfHash(_get_md5(n(t).dump)) : pattern_id[t] = Str(r.id)
           /\ pc[t] # "failed" =>
                  \A i \in DOMAIN InstancesOf(t) :
                      \E r \in RowsOfHash(_get_md5(visited[t][i].dump)) :
                          InstancesOf(t)[i].pattern_id = Str(r.id)

\* Both threads ran into the same hash: one wrote the row and committed, the
\* other had to wait for it and then returned the id of that row.
C5_Witness ==
    \E t \in Threads, u \in Threads :
        /\ t # u
        /\ waited[t] /\ pc[t] = "record" /\ Len(visited[t]) = 1
        /\ _get_md5(n(t).dump) = "h1"
        /\ u \in committed
        /\ \E r \in RowsOfHash("h1") :
               /\ r.xid = u
               /\ pattern_id[t] = Str(r.id)
               /\ \E i \in DOMAIN InstancesOf(u) : InstancesOf(u)[i].pattern_id = Str(r.id)
        /\ Cardinality(RowsOfHash("h1")) = 1

\* C6: one run of _extract_patterns appends exactly one pattern_instances row
\* per node visited, in order, with the node's place and pattern id; k nodes
\* of the same pattern, also at the same file, line and column, give k rows
\* for that pattern id and commit id.
C6_OneInstancePerNode ==
    \A t \in Threads :
        pc[t] # "failed" =>
            LET rows == InstancesOf(t)
                done == Recorded(t)
            IN  /\ Len(rows) = Len(done)
                /\ \A i \in DOMAIN rows :
                       /\ <<rows[i].file, rows[i].line, rows[i].col_offset>> = done[i].origin
                       /\ rows[i].commit_id = commit_id[t]
                       /\ \E r \in RowsOfHash(_get_md5(done[i].dump)) :
                              rows[i].pattern_id = Str(r.id)
                /\ \A r \in patterns :
                       Cardinality({i \in DOMAIN rows : rows[i].pattern_id = Str(r.id)})
                           = Cardinality({i \in DOMAIN done : _get_md5(done[i].dump) = r.hash})

\* A committed run over two nodes that are the same in dump and place left
\* two equal rows.
C6_Witness ==
    \E t \in Threads :
        /\ pc[t] = "done"
        /\ Len(visited[t]) = 2
        /\ visited[t][1] = visited[t][2]
        /\ Len(InstancesOf(t)) = 2
        /\ InstancesOf(t)[1] = InstancesOf(t)[2]

(***************************************************************************)
(* web/analyzer.py: _find_repos_select_query and _find_repos_by_metadata.  *)
(* A string is the sequence of its characters.                             *)
(***************************************************************************)
\* The values of a RepoInfo that analyzer.py reads: url, server, user, name
\* and dir of the repository user/name on a server.
RepoInfoOf(server, user, name) ==
    [url    |-> server \o <<"/">> \o user \o <<"/">> \o name,
     server |-> server,
     user   |-> user,
     name   |-> name,
     dir    |-> <<"~">> \o server \o <<"~">> \o user \o <<"~">> \o name]

\* A row of repos joined with states, as _SELECT_REPO_JOIN_STATUS yields it
\* (status holds states.name; status_desc is a function of it).
RepoRow(id, info, status) ==
    [id |-> id, url |-> info.url, server |-> info.server, user |-> info.user,
     name |-> info.name, dir |-> info.dir, status |-> status]

\* SQL LOWER() of a character and of a string.
LowerChar(c) ==
    CASE c = "A" -> "a"
      [] c = "B" -> "b"
      [] OTHER -> c
Lower(str) == [i \in DOMAIN str |-> LowerChar(str[i])]

\* SQL LIKE: % stands for any string, _ for any one character.
RECURSIVE Like(_, _)
Like(str, pat) ==
    IF pat = <<>> THEN str = <<>>
    ELSE IF Head(pat) = "%"
         THEN Like(str, Tail(pat)) \/ (str # <<>> /\ Like(Tail(str), pat))
         ELSE /\ str # <<>>
              /\ Head(pat) = "_" \/ Head(pat) = Head(str)
              /\ Like(Tail(str), Tail(pat))

\* The (where, params) pair of one entry of CONDITIONS.
Cond(column, op, param) == [column |-> column, op |-> op, param |-> param]

\* f"{repo_path}%", f"%{repo_path}", f"%{repo_path}%"
Prefix(repo_path) == repo_path \o <<"%">>
Suffix(repo_path) == <<"%">> \o repo_path
Infix(repo_path) == <<"%">> \o repo_path \o <<"%">>

\* Faulty variant: the partial repo name matches are listed before the exact ones.
CONDITIONS_partial_first(repo_path) ==
    <<Cond("name", "LIKE", Prefix(repo_path)),
      Cond("name", "LIKE", Suffix(repo_path)),
      Cond("name", "LIKE", Infix(repo_path)),
      Cond("name", "=", repo_path),
      Cond("name", "LOWER=", repo_path),
      Cond("user", "=", repo_path),
      Cond("user", "LOWER=", repo_path),
      Cond("server", "=", repo_path),
      Cond("server", "LOWER=", repo_path),
      Cond("name", "ILIKE", Prefix(repo_path)),
      Cond("name", "ILIKE", Suffix(repo_path)),
      Cond("name", "ILIKE", Infix(repo_path)),
      Cond("user", "LIKE", Prefix(repo_path)),
      Cond("user", "LIKE", Suffix(repo_path)),
      Cond("user", "LIKE", Infix(repo_path)),
      Cond("user", "ILIKE", Prefix(repo_path)),
      Cond("user", "ILIKE", Suffix(repo_path)),
      Cond("user", "ILIKE", Infix(repo_path)),
      Cond("server", "ILIKE", Infix(repo_path))>>

\* The list CONDITIONS of _find_repos_by_metadata.
CONDITIONS(repo_path) ==
    <<Cond("name", "=", repo_path),
      Cond("name", "LOWER=", repo_path),
      Cond("user", "=", repo_path),
      Cond("user", "LOWER=", repo_path),
      Cond("server", "=", repo_path),
      Cond("server", "LOWER=", repo_path),
      Cond("name", "LIKE", Prefix(repo_path)),
      Cond("name", "LIKE", Suffix(repo_path)),
      Cond("name", "LIKE", Infix(repo_path)),
      Cond("name", "ILIKE", Prefix(repo_path)),
      Cond("name", "ILIKE", Suffix(repo_path)),
      Cond("name", "ILIKE", Infix(repo_path)),
      Cond("user", "LIKE", Prefix(repo_path)),
      Cond("user", "LIKE", Suffix(repo_path)),
      Cond("user", "LIKE", Infix(repo_path)),
      Cond("user", "ILIKE", Prefix(repo_path)),
      Cond("user", "ILIKE", Suffix(repo_path)),
      Cond("user", "ILIKE", Infix(repo_path)),
      Cond("server", "ILIKE", Infix(repo_path))>>

\* The WHERE clause of a condition on one row.
Where(c, row) ==
    CASE c.op = "="      -> row[c.column] = c.param
      [] c.op = "LOWER=" -> Lower(row[c.column]) = Lower(c.param)
      [] c.op = "LIKE"   -> Like(row[c.column], c.param)
      [] c.op = "ILIKE"  -> Like(Lower(row[c.column]), Lower(c.param))

\* _find_repos_select_query: the rows of the table the condition selects
\* (without ORDER BY the rows come in no particular order: a set).
_find_repos_select_query(table, c) == {row \in table : Where(c, row)}

\* _find_repos_by_metadata from the i-th condition on, every query run on the
\* same table: the rows of the first condition that selects any, else None.
RECURSIVE find_repos_from(_, _, _)
find_repos_from(table, repo_path, i) ==
    IF i > Len(CONDITIONS(repo_path)) THEN None
    ELSE LET found == _find_repos_select_query(table, CONDITIONS(repo_path)[i])
         IN  IF found # {} THEN Str(found)
             ELSE find_repos_from(table, repo_path, i + 1)

_find_repos_by_metadata(table, repo_path) == find_repos_from(table, repo_path, 1)

\* The repositories of FindSpec, <<server, user, name>>, and the paths asked for.
FindRepos ==
    <<RepoInfoOf(<<"g">>, <<"u">>, <<"a">>),
      RepoInfoOf(<<"g">>, <<"u">>, <<"A">>),
      RepoInfoOf(<<"g">>, <<"a">>, <<"x">>),
      RepoInfoOf(<<"A">>, <<"u">>, <<"x">>),
      RepoInfoOf(<<"g">>, <<"u">>, <<"B", "a">>),
      RepoInfoOf(<<"g">>, <<"A", "b">>, <<"x">>),
      RepoInfoOf(<<"x", "a", "g">>, <<"u">>, <<"x">>)>>
FindRows == {RepoRow(i, FindRepos[i], "done") : i \in DOMAIN FindRepos}
FindPaths == {<<"a">>, <<"b">>, <<"_">>}

\* for c in CONDITIONS: repos = _find_repos_select_query(conn, *c);
\* if repos: return repos
TryCondition ==
    /\ find.pc = "loop"
    /\ find.i <= Len(CONDITIONS(find.path))
    /\ LET c == CONDITIONS(find.path)[find.i]
           found == _find_repos_select_query(repos, c)
       IN  find' = [find EXCEPT
                       !.evaluated = Append(@, [cond |-> c, repos |-> found, table |-> repos]),
                       !.i = IF found # {} THEN @ ELSE @ + 1,
                       !.pc = IF found # {} THEN "returned" ELSE @,
                       !.repos = IF found # {} THEN Str(found) ELSE @]
    /\ UNCHANGED <<repos, commits, clusters, origins, tx, conn, unbound, started,
                   alocal, wpc, wlocal>>
    /\ UNCHANGED <<treeVars, patVars, regVars>>

\* The loop ran out of conditions: return None
ReturnNone ==
    /\ find.pc = "loop"
    /\ find.i > Len(CONDITIONS(find.path))
    /\ find' = [find EXCEPT !.pc = "returned", !.repos = None]
    /\ UNCHANGED <<repos, commits, clusters, origins, tx, conn, unbound, started,
                   alocal, wpc, wlocal>>
    /\ UNCHANGED <<treeVars, patVars, regVars>>

\* Between two queries of the call another request inserts a repository row
\* (_try_insert_repo on a connection in autocommit mode).
Arrive(row) ==
    /\ find.pc = "loop"
    /\ find.arrived < MaxArrivals
    /\ row \notin repos
    /\ repos' = repos \cup {row}
    /\ find' = [find EXCEPT !.arrived = @ + 1]
    /\ UNCHANGED <<commits, clusters, origins, tx, conn, unbound, started,
                   alocal, wpc, wlocal>>
    /\ UNCHANGED <<treeVars, patVars, regVars>>

FindInit ==
    /\ TreeIdle
    /\ phase = "find"
    /\ PatternIdle
    /\ RegistryIdle
    /\ repos \in {table \in SUBSET FindRows : Cardinality(table) <= 1}
    /\ commits = {}
    /\ clusters = {}
    /\ origins = {}
    /\ tx = [t \in Threads |-> <<>>]
    /\ conn = [p \in Procs |-> "unbound"]
    /\ unbound = {}
    /\ started = <<>>
    /\ alocal = [t \in Threads |-> NoThreadLocals]
    /\ wpc = [w \in Requests |-> "idle"]
    /\ wlocal = [w \in Requests |-> NoRequestLocals]
    /\ \E repo_path \in FindPaths :
           find = [pc |-> "loop", path |-> repo_path, i |-> 1, evaluated |-> <<>>,
                   repos |-> None, arrived |-> 0]

FindNext ==
    \/ TryCondition
    \/ ReturnNone
    \/ \E row \in FindRows : Arrive(row)

FindSpec == FindInit /\ [][FindNext]_vars

\* The listed order: exact repo name, exact user, exact server, then the
\* partial matches of repo name, user and server.
ListedColumn(k) ==
    CASE k \in 1..2 -> "name"
      [] k \in 3..4 -> "user"
      [] k \in 5..6 -> "server"
      [] k \in 7..12 -> "name"
      [] k \in 13..18 -> "user"
      [] k = 19 -> "server"
ListedExact(k) == k <= 6

\* C17: _find_repos_by_metadata runs its conditions in the listed order
\* (exact repo name, user, server, then partial matches), returns the rows of
\* the first condition that selects at least one repository and runs no
\* condition after it, and returns None only when no condition selects any.
C17_FirstMatchInListedOrder ==
    find.pc \in {"loop", "returned"} =>
        LET ev == find.evaluated
        IN  /\ \A k \in DOMAIN ev :
                   /\ k <= 19
                   /\ ev[k].cond.column = ListedColumn(k)
                   /\ ev[k].cond.op \in {"=", "LOWER="} <=> ListedExact(k)
                   /\ ev[k].repos = {row \in ev[k].table : Where(ev[k].cond, row)}
                   /\ k < Len(ev) => ev[k].repos = {}
            /\ find.pc = "loop" => (ev # <<>> => ev[Len(ev)].repos = {})
            /\ find.pc = "returned" =>
                   /\ find.repos # None =>
                          /\ ev[Len(ev)].repos # {}
                          /\ find.repos = Str(ev[Len(ev)].repos)
                   /\ find.repos = None =>
                          /\ Len(ev) = 19
                          /\ \A k \in DOMAIN ev : ev[k].repos = {}
                   /\ find.arrived = 0 =>
                          /\ find.repos = _find_repos_by_metadata(repos, find.path)
                          /\ find.repos = None <=>
                                 \A k \in 1..19, row \in repos :
                                     ~Where(CONDITIONS(find.path)[k], row)
                          /\ \A row \in repos :
                                 (row.name = find.path \/ Lower(row.name) = Lower(find.path))
                                     => find.repos = Str({r \in repos :
                                            IF \E q \in repos : q.name = find.path
                                            THEN r.name = find.path
                                            ELSE Lower(r.name) = Lower(find.path)})

\* A call returned the rows of a partial match after every exact condition
\* had selected nothing, and another call returned at the first condition.
C17_Witness ==
    /\ find.pc = "returned"
    /\ find.repos # None
    /\ Len(find.evaluated) > 6
    /\ find.arrived = 1
    /\ Cardinality(repos) = 2

(***************************************************************************)
(* web/analyzer.py: analyze_repo, run by the thread get_repo_analysis      *)
(* starts.  A connection is in autocommit mode: a statement outside        *)
(* `with conn.transaction()` is committed when it returns, the statements  *)
(* of a transaction block become visible to other connections together     *)
(* when the block is left, and are undone when it is left by an            *)
(* exception.                                                              *)
(***************************************************************************)
\* The repository analysed before the run starts and the one the requests
\* of the run ask for.
StoredRepo == RepoInfoOf(<<"g">>, <<"u">>, <<"x">>)
NewRepo == RepoInfoOf(<<"g">>, <<"u">>, <<"y">>)

\* The position of the start of thread t in the list of Thread starts.
StartOf(t) == IF t = "t1" THEN 1 ELSE 2

\* repo_info.hash of the checked out commit.
HashOf(repo_info) == IF repo_info = StoredRepo THEN "s1" ELSE "n1"

\* result.clones as run_single_repo returns it: DetectedClone(value,
\* match_weight, origins) with origins mapping (file, line, col_offset) to a
\* similarity.
Clone1 ==
    [value |-> "Name", match_weight |-> 2,
     origins |-> <<[file |-> "a.py", line |-> 1, col_offset |-> 0, similarity |-> 1],
                   [file |-> "b.py", line |-> 2, col_offset |-> 4, similarity |-> 1]>>]
Clone2 ==
    [value |-> "Call", match_weight |-> 3,
     origins |-> <<[file |-> "a.py", line |-> 3, col_offset |-> 0, similarity |-> 1],
                   [file |-> "a.py", line |-> 7, col_offset |-> 0, similarity |-> 1]>>]
Results == {<<>>, <<Clone1, Clone2>>}

\* get_modules_from_dir: no module, or the modules of the repository.
ModuleLists == {<<>>, <<"a.py", "b.py">>}

\* The tables as one value, and the assignment of one to the tables.
Database ==
    [repos |-> repos, commits |-> commits, clusters |-> clusters, origins |-> origins]
Store(d) ==
    /\ repos' = d.repos
    /\ commits' = d.commits
    /\ clusters' = d.clusters
    /\ origins' = d.origins

\* The statements analyze_repo issues; repo_id is the parameter as passed
\* (<<id>>, or <<>> for None, which WHERE id = %s matches with no row).
UpdateStatus(repo_id, status) == [table |-> "repos", id |-> repo_id, status |-> status]
InsertRow(table, row) == [table |-> table, row |-> row]

\* The tables after a statement took effect.
Execute(d, stmt) ==
    CASE stmt.table = "repos" ->
             [d EXCEPT !.repos = {IF Str(r.id) = stmt.id THEN [r EXCEPT !.status = stmt.status]
                                  ELSE r : r \in @}]
      [] stmt.table = "commits"  -> [d EXCEPT !.commits = @ \cup {stmt.row}]
      [] stmt.table = "clusters" -> [d EXCEPT !.clusters = @ \cup {stmt.row}]
      [] stmt.table = "origins"  -> [d EXCEPT !.origins = @ \cup {stmt.row}]

RECURSIVE ExecuteAll(_, _)
ExecuteAll(d, stmts) ==
    IF stmts = <<>> THEN d ELSE ExecuteAll(Execute(d, Head(stmts)), Tail(stmts))

\* Faulty variant: the statements run outside a transaction block, each one
\* committed by itself.
run_autocommit(d, pending, stmts) == [db |-> ExecuteAll(d, stmts), tx |-> pending]

\* conn.one / conn.run inside `with conn.transaction()` (line 88): the
\* statements join the open transaction.
run_in_transaction(d, pending, stmts) == [db |-> d, tx |-> pending \o stmts]

\* Faulty variant: one transaction block around the results and the pattern
\* extraction, so nothing is committed when the extraction starts.
leave_transaction_later(d, pending) == [db |-> d, tx |-> pending]

\* Leaving the block of line 88 normally: COMMIT.
leave_transaction(d, pending) == [db |-> ExecuteAll(d, pending), tx |-> <<>>]

\* Faulty variant: the return after the err_clone update is missing.
after_err_clone_no_return(cloned) == "parse"

\* Where analyze_repo goes on after clone_or_pull: line 79 on success, the
\* finally clause after the update and the return of lines 74-77.
after_err_clone(cloned) == IF cloned THEN "parse" ELSE "finally"

\* handle_pg_error(ex, conn, repo_id): the repository is marked err_analysis
\* when there is one.
handle_pg_error(d, repo_id) ==
    IF repo_id = None THEN d ELSE Execute(d, UpdateStatus(repo_id, "err_analysis"))

\* The id a sequence column gives the next row of a table.
NextId(rows) == 1 + Cardinality(rows)

\* The cluster and origin rows analyze_repo writes for the k-th clone.
ClusterRow(t, k, cluster_id) ==
    LET c == alocal[t].result[1][k]
    IN  [id |-> cluster_id, commit_id |-> commit_id[t], value |-> c.value,
         weight |-> c.match_weight]
OriginRows(t, k, cluster_id) ==
    LET c == alocal[t].result[1][k]
    IN  [i \in DOMAIN c.origins |->
            InsertRow("origins",
                [cluster_id |-> cluster_id, file |-> c.origins[i].file,
                 line |-> c.origins[i].line, col_offset |-> c.origins[i].col_offset,
                 similarity |-> c.origins[i].similarity])]

\* The thread starts: conn = pg_conn(db_url) (line 65).
AConnect(t) ==
    /\ pc[t] = "idle"
    /\ Len(started) >= StartOf(t)
    /\ alocal' = [alocal EXCEPT ![t] = [NoThreadLocals EXCEPT
                      !.repo_info = started[StartOf(t)].repo_info,
                      !.repo_id = started[StartOf(t)].repo_id]]
    /\ conn' = [conn EXCEPT ![t] = "open"]
    /\ pc' = [pc EXCEPT ![t] = "clone"]
    /\ UNCHANGED <<repos, commits, clusters, origins, tx, unbound, started, wpc, wlocal, find>>
    /\ UNCHANGED <<patterns, pattern_instances, id_seq, committed, visited, pattern_id, waited>>
    /\ UNCHANGED <<treeVars, patVars>>

\* pg_conn(db_url) raises psycopg2.Error: the except clause (line 114) and
\* then the finally clause (line 117) read conn, which was never assigned;
\* the thread ends with UnboundLocalError.
AConnectFail(t) ==
    /\ pc[t] = "idle"
    /\ Len(started) >= StartOf(t)
    /\ alocal' = [alocal EXCEPT ![t] = [NoThreadLocals EXCEPT
                      !.repo_info = started[StartOf(t)].repo_info,
                      !.repo_id = started[StartOf(t)].repo_id]]
    /\ unbound' = unbound \cup {t}
    /\ pc' = [pc EXCEPT ![t] = "crashed"]
    /\ UNCHANGED <<repos, commits, clusters, origins, tx, conn, started, wpc, wlocal, find>>
    /\ UNCHANGED <<patterns, pattern_instances, id_seq, committed, visited, pattern_id, waited>>
    /\ UNCHANGED <<treeVars, patVars>>

\* repo_info.clone_or_pull() (line 67); when it fails the repository is
\* marked err_clone and the function returns (lines 74-77).
CloneOrPull(t, cloned) ==
    /\ pc[t] = "clone"
    /\ alocal' = [alocal EXCEPT ![t].cloned = Str(cloned)]
    /\ Store(IF cloned THEN Database
             ELSE Execute(Database, UpdateStatus(alocal[t].repo_id, "err_clone")))
    /\ pc' = [pc EXCEPT ![t] = after_err_clone(cloned)]
    /\ UNCHANGED <<tx, conn, unbound, started, wpc, wlocal, find>>
    /\ UNCHANGED <<patterns, pattern_instances, id_seq, committed, visited, pattern_id, waited>>
    /\ UNCHANGED <<treeVars, patVars>>

\* clone_or_pull() fails and the err_clone update raises psycopg2.Error.
ErrCloneFail(t) ==
    /\ pc[t] = "clone"
    /\ alocal' = [alocal EXCEPT ![t].cloned = Str(FALSE)]
    /\ pc' = [pc EXCEPT ![t] = "failed"]
    /\ UNCHANGED <<repos, commits, clusters, origins, tx, conn, unbound, started, wpc, wlocal, find>>
    /\ UNCHANGED <<patterns, pattern_instances, id_seq, committed, visited, pattern_id, waited>>
    /\ UNCHANGED <<treeVars, patVars>>

\* modules = get_modules_from_dir(repo_info.dir); if not modules: return
\* (lines 79-83).
GetModules(t, modules) ==
    /\ pc[t] = "parse"
    /\ alocal' = [alocal EXCEPT ![t].modules = Str(modules)]
    /\ pc' = [pc EXCEPT ![t] = IF modules = <<>> THEN "finally" ELSE "detect"]
    /\ UNCHANGED <<repos, commits, clusters, origins, tx, conn, unbound, started, wpc, wlocal, find>>
    /\ UNCHANGED <<patterns, pattern_instances, id_seq, committed, visited, pattern_id, waited>>
    /\ UNCHANGED <<treeVars, patVars>>

\* result = run_single_repo(modules, algorithm) (line 85)
Detect(t, clones) ==
    /\ pc[t] = "detect"
    /\ alocal' = [alocal EXCEPT ![t].result = Str(clones)]
    /\ pc' = [pc EXCEPT ![t] = "insert_commit"]
    /\ UNCHANGED <<repos, commits, clusters, origins, tx, conn, unbound, started, wpc, wlocal, find>>
    /\ UNCHANGED <<patterns, pattern_instances, id_seq, committed, visited, pattern_id, waited>>
    /\ UNCHANGED <<treeVars, patVars>>

\* with conn.transaction(): commit_id = conn.one(INSERT INTO commits ...)
\* (lines 88-90)
InsertCommit(t) ==
    /\ pc[t] = "insert_commit"
    /\ LET row == [id |-> commit_id[t], repo_id |-> alocal[t].repo_id,
                   hash |-> HashOf(alocal[t].repo_info[1])]
           after == run_in_transaction(Database, tx[t], <<InsertRow("commits", row)>>)
       IN  Store(after.db) /\ tx' = [tx EXCEPT ![t] = after.tx]
    /\ pc' = [pc EXCEPT ![t] = "insert_cluster"]
    /\ alocal' = [alocal EXCEPT ![t].cluster = 1]
    /\ UNCHANGED <<conn, unbound, started, wpc, wlocal, find>>
    /\ UNCHANGED <<patterns, pattern_instances, id_seq, committed, visited, pattern_id, waited>>
    /\ UNCHANGED <<treeVars, patVars>>

\* for c in result.clones: the cluster row and the origin rows of c
\* (lines 92-98)
InsertCluster(t) ==
    /\ pc[t] = "insert_cluster"
    /\ alocal[t].cluster <= Len(alocal[t].result[1])
    /\ LET k == alocal[t].cluster
           cluster_id == NextId(clusters) + k - 1
           stmts == <<InsertRow("clusters", ClusterRow(t, k, cluster_id))>>
                        \o OriginRows(t, k, cluster_id)
           after == run_in_transaction(Database, tx[t], stmts)
       IN  Store(after.db) /\ tx' = [tx EXCEPT ![t] = after.tx]
    /\ alocal' = [alocal EXCEPT ![t].cluster = @ + 1]
    /\ UNCHANGED <<pc, conn, unbound, started, wpc, wlocal, find>>
    /\ UNCHANGED <<patterns, pattern_instances, id_seq, committed, visited, pattern_id, waited>>
    /\ UNCHANGED <<treeVars, patVars>>

\* UPDATE repos SET status = 'done' (lines 103-104), the last statement of
\* the block.
UpdateDone(t) ==
    /\ pc[t] = "insert_cluster"
    /\ alocal[t].cluster > Len(alocal[t].result[1])
    /\ LET after == run_in_transaction(Database, tx[t],
                        <<UpdateStatus(alocal[t].repo_id, "done")>>)
       IN  Store(after.db) /\ tx' = [tx EXCEPT ![t] = after.tx]
    /\ pc' = [pc EXCEPT ![t] = "leave"]
    /\ UNCHANGED <<conn, unbound, started, alocal, wpc, wlocal, find>>
    /\ UNCHANGED <<patterns, pattern_instances, id_seq, committed, visited, pattern_id, waited>>
    /\ UNCHANGED <<treeVars, patVars>>

\* The block of line 88 is left and the one of line 107 entered:
\* _extract_patterns starts.
LeaveTransaction(t) ==
    /\ pc[t] = "leave"
    /\ LET after == leave_transaction(Database, tx[t])
       IN  Store(after.db) /\ tx' = [tx EXCEPT ![t] = after.tx]
    /\ pc' = [pc EXCEPT ![t] = "next"]
    /\ UNCHANGED <<conn, unbound, started, alocal, wpc, wlocal, find>>
    /\ UNCHANGED <<patterns, pattern_instances, id_seq, committed, visited, pattern_id, waited>>
    /\ UNCHANGED <<treeVars, patVars>>

\* A statement of the block of line 88, or its COMMIT, raises psycopg2.Error:
\* the transaction is rolled back.
ResultsFail(t) ==
    /\ pc[t] \in {"insert_commit", "insert_cluster", "leave"}
    /\ tx' = [tx EXCEPT ![t] = <<>>]
    /\ pc' = [pc EXCEPT ![t] = "failed"]
    /\ UNCHANGED <<repos, commits, clusters, origins, conn, unbound, started, alocal,
                   wpc, wlocal, find>>
    /\ UNCHANGED <<patterns, pattern_instances, id_seq, committed, visited, pattern_id, waited>>
    /\ UNCHANGED <<treeVars, patVars>>

\* except PG_Error as ex: handle_pg_error(ex, conn, repo_id) (lines 113-114);
\* a transaction still open on the connection is gone with the error.
HandleError(t) ==
    /\ pc[t] = "failed"
    /\ Store(handle_pg_error(Database, alocal[t].repo_id))
    /\ tx' = [tx EXCEPT ![t] = <<>>]
    /\ alocal' = [alocal EXCEPT ![t].handled = TRUE]
    /\ pc' = [pc EXCEPT ![t] = "finally"]
    /\ UNCHANGED <<conn, unbound, started, wpc, wlocal, find>>
    /\ UNCHANGED <<patterns, pattern_instances, id_seq, committed, visited, pattern_id, waited>>
    /\ UNCHANGED <<treeVars, patVars>>

\* finally: conn.close() (lines 116-117), reached by either return, by the
\* end of the try block and from the except clause.
AClose(t) ==
    /\ pc[t] \in {"finally", "done"}
    /\ conn' = [conn EXCEPT ![t] = IF @ = "open" THEN "closed" ELSE "closed again"]
    /\ pc' = [pc EXCEPT ![t] = "exit"]
    /\ UNCHANGED <<repos, commits, clusters, origins, tx, unbound, started, alocal,
                   wpc, wlocal, find>>
    /\ UNCHANGED <<patterns, pattern_instances, id_seq, committed, visited, pattern_id, waited>>
    /\ UNCHANGED <<treeVars, patVars>>

(***************************************************************************)
(* web/analyzer.py: get_repo_analysis, _try_insert_repo,                   *)
(* _get_repo_dict_from_repoinfo, _get_repo_summary, find_repo_results.     *)
(***************************************************************************)
\* The paths of the requests: the URL of NewRepo, names stored repositories
\* match or not, and one that is no path at all.
RequestPaths == {NewRepo.url, <<"u">>, <<"y">>, <<"!">>}

\* RepoInfo.parse_repo_info(repo_path): the RepoInfo of a repository path,
\* None for anything else.
parse_repo_info(repo_path) ==
    IF repo_path = NewRepo.url THEN Str(NewRepo)
    ELSE IF repo_path = StoredRepo.url THEN Str(StoredRepo)
    ELSE None

\* re.fullmatch(r"^[\w\.\-]+$", repo_path)
WordChars == {"a", "b", "g", "u", "x", "y", "z", "A", "B", "_"}
fullmatch(repo_path) ==
    /\ repo_path # <<>>
    /\ \A i \in DOMAIN repo_path : repo_path[i] \in WordChars \cup {".", "-"}

\* What a call returns or raises.
Outcome(kind, value) == [kind |-> kind, value |-> value]

\* repos has unique columns: the rows that make the INSERT of this
\* repository a conflict.
RepoConflict(table, repo_info) ==
    {r \in table : \/ r.url = repo_info.url
                   \/ r.dir = repo_info.dir
                   \/ (r.server = repo_info.server /\ r.user = repo_info.user
                       /\ r.name = repo_info.name)}

\* _try_insert_repo: INSERT INTO repos ... ON CONFLICT DO NOTHING RETURNING
\* id, as conn.one returns it.
_try_insert_repo(table, repo_info) ==
    IF RepoConflict(table, repo_info) # {} THEN None ELSE Str(NextId(table))

\* _get_repo_dict_from_repoinfo: the query has the placeholders url, dir,
\* server, user, name and is given url, server, user, name, dir.
_get_repo_dict_from_repoinfo(table, repo_info) ==
    LET p == <<repo_info.url, repo_info.server, repo_info.user, repo_info.name,
               repo_info.dir>>
        rows == {r \in table : \/ r.url = p[1]
                               \/ r.dir = p[2]
                               \/ (r.server = p[3] /\ r.user = p[4] /\ r.name = p[5])}
    IN  IF rows = {} THEN None ELSE Str(CHOOSE r \in rows : TRUE)

\* Faulty variant: the thread is started whether or not the INSERT gave an id.
starts_thread_always(repo_id) == TRUE

\* if repo_id is not None: (line 277)
starts_thread(repo_id) == repo_id # None

\* _get_repo_summary up to the call of find_repo_results.
_get_repo_summary(repo_dict) ==
    IF repo_dict = None THEN Outcome("str", "Database error")
    ELSE IF repo_dict[1].status \in {"queue", "err_clone", "err_analysis"}
         THEN Outcome("status_desc", repo_dict[1].status)
    ELSE IF repo_dict[1].status = "done"
         THEN Outcome("find_repo_results", repo_dict[1].id)
    ELSE Outcome("str", "Unexpected repository status")

\* Faulty variant: the first match is summarized also when there are several.
unparsed_first(found) ==
    IF found = None THEN "raise" ELSE "summary"

\* Lines 260-270: what get_repo_analysis does with the matches.
unparsed(found) ==
    IF found = None \/ found = Str({}) THEN "raise"
    ELSE IF Cardinality(found[1]) = 1 THEN "summary"
    ELSE "list"

\* The locals and the position of a request after `return
\* _get_repo_summary(conn, repo_dict)`.
Summarized(l, repo_dict) ==
    LET s == _get_repo_summary(repo_dict)
    IN  IF s.kind = "find_repo_results"
        THEN [pc |-> "select_commit", l |-> [l EXCEPT !.repo_dict = repo_dict]]
        ELSE [pc |-> "finally",
              l |-> [l EXCEPT !.repo_dict = repo_dict, !.outcome = Str(s)]]

\* get_repo_analysis(repo_path): repo_path.strip(), repo_id = None,
\* repo_info = RepoInfo.parse_repo_info(repo_path) (lines 247-251).
Call(w, repo_path) ==
    /\ phase = "analyzer"
    /\ wpc[w] = "idle"
    /\ wlocal' = [wlocal EXCEPT ![w] = [NoRequestLocals EXCEPT
                      !.path = repo_path,
                      !.repo_info = parse_repo_info(repo_path),
                      !.late = pc["t2"] \in {"exit", "crashed"}]]
    /\ conn' = [conn EXCEPT ![w] = "unbound"]
    /\ wpc' = [wpc EXCEPT ![w] = "connect"]
    /\ UNCHANGED <<repos, commits, clusters, origins, tx, unbound, started, alocal, find>>
    /\ UNCHANGED <<treeVars, patVars, regVars>>

\* conn = pg_conn(db_url) (line 253); a path that is neither a repository
\* nor a name raises UserInputError (line 273).
Connect(w) ==
    /\ wpc[w] = "connect"
    /\ conn' = [conn EXCEPT ![w] = "open"]
    /\ IF wlocal[w].repo_info # None
       THEN wpc' = [wpc EXCEPT ![w] = "insert"] /\ UNCHANGED wlocal
       ELSE IF fullmatch(wlocal[w].path)
            THEN wpc' = [wpc EXCEPT ![w] = "find"] /\ UNCHANGED wlocal
            ELSE /\ wpc' = [wpc EXCEPT ![w] = "finally"]
                 /\ wlocal' = [wlocal EXCEPT ![w].outcome =
                        Str(Outcome("UserInputError", "Invalid Git repository path format"))]
    /\ UNCHANGED <<repos, commits, clusters, origins, tx, unbound, started, alocal, find>>
    /\ UNCHANGED <<treeVars, patVars, regVars>>

\* pg_conn(db_url) raises psycopg2.Error: the except clause (line 286) and
\* then the finally clause (line 290) read conn, which was never assigned;
\* the call raises UnboundLocalError.
ConnectFail(w) ==
    /\ wpc[w] = "connect"
    /\ unbound' = unbound \cup {w}
    /\ wlocal' = [wlocal EXCEPT ![w].outcome =
           Str(Outcome("UnboundLocalError", "conn"))]
    /\ wpc' = [wpc EXCEPT ![w] = "returned"]
    /\ UNCHANGED <<repos, commits, clusters, origins, tx, conn, started, alocal, find>>
    /\ UNCHANGED <<treeVars, patVars, regVars>>

\* repos = _find_repos_by_metadata(conn, repo_path) and lines 260-270.  The
\* queries of the call are taken together: rows are only ever added to repos
\* and the columns matched never change (FindSpec runs them one by one).
FindByMetadata(w) ==
    /\ wpc[w] = "find"
    /\ LET found == _find_repos_by_metadata(repos, wlocal[w].path)
           l == [wlocal[w] EXCEPT !.repos = found]
           what == unparsed(found)
       IN  CASE what = "raise" ->
                    /\ wlocal' = [wlocal EXCEPT ![w] = [l EXCEPT !.outcome =
                           Str(Outcome("UserInputError",
                                       "No matching repository found in the database"))]]
                    /\ wpc' = [wpc EXCEPT ![w] = "finally"]
              [] what = "summary" ->
                    LET after == Summarized(l, Str(CHOOSE r \in found[1] : TRUE))
                    IN  /\ wlocal' = [wlocal EXCEPT ![w] = after.l]
                        /\ wpc' = [wpc EXCEPT ![w] = after.pc]
              [] what = "list" ->
                    /\ wlocal' = [wlocal EXCEPT ![w] = [l EXCEPT !.outcome =
                           Str(Outcome("list", found[1]))]]
                    /\ wpc' = [wpc EXCEPT ![w] = "finally"]
    /\ UNCHANGED <<repos, commits, clusters, origins, tx, conn, unbound, started, alocal, find>>
    /\ UNCHANGED <<treeVars, patVars, regVars>>

\* repo_id = _try_insert_repo(conn, repo_info); with an id the analysis
\* thread is started and the call returns (lines 275-279).
TryInsert(w) ==
    /\ wpc[w] = "insert"
    /\ LET repo_info == wlocal[w].repo_info[1]
           repo_id == _try_insert_repo(repos, repo_info)
       IN  /\ repos' = IF repo_id = None THEN repos
                       ELSE repos \cup {RepoRow(repo_id[1], repo_info, "queue")}
           /\ IF starts_thread(repo_id)
              THEN /\ started' = Append(started,
                          [repo_info |-> Str(repo_info), repo_id |-> repo_id])
                   /\ wlocal' = [wlocal EXCEPT ![w].repo_id = repo_id,
                          ![w].outcome = Str(Outcome("str",
                              "The repository has been added to the queue"))]
                   /\ wpc' = [wpc EXCEPT ![w] = "finally"]
              ELSE /\ started' = started
                   /\ wlocal' = [wlocal EXCEPT ![w].repo_id = repo_id]
                   /\ wpc' = [wpc EXCEPT ![w] = "lookup"]
    /\ UNCHANGED <<commits, clusters, origins, tx, conn, unbound, alocal, find>>
    /\ UNCHANGED <<treeVars, patVars, regVars>>

\* repo_dict = _get_repo_dict_from_repoinfo(conn, repo_info);
\* return _get_repo_summary(conn, repo_dict) (lines 281-283)
Lookup(w) ==
    /\ wpc[w] = "lookup"
    /\ LET after == Summarized(wlocal[w],
                        _get_repo_dict_from_repoinfo(repos, wlocal[w].repo_info[1]))
       IN  /\ wlocal' = [wlocal EXCEPT ![w] = after.l]
           /\ wpc' = [wpc EXCEPT ![w] = after.pc]
    /\ UNCHANGED <<repos, commits, clusters, origins, tx, conn, unbound, started, alocal, find>>
    /\ UNCHANGED <<treeVars, patVars, regVars>>

\* find_repo_results: the commit of the repository (lines 122-126).
SelectCommit(w) ==
    /\ wpc[w] = "select_commit"
    /\ LET rows == {c \in commits : c.repo_id = Str(wlocal[w].repo_dict[1].id)}
       IN  IF rows = {}
           THEN /\ wlocal' = [wlocal EXCEPT ![w].outcome = Str(Outcome("str",
                       "No commit has been analyzed yet for this repository"))]
                /\ wpc' = [wpc EXCEPT ![w] = "finally"]
           ELSE /\ wlocal' = [wlocal EXCEPT ![w].commit_id =
                       Str((CHOOSE c \in rows : TRUE).id)]
                /\ wpc' = [wpc EXCEPT ![w] = "select_clusters"]
    /\ UNCHANGED <<repos, commits, clusters, origins, tx, conn, unbound, started, alocal, find>>
    /\ UNCHANGED <<treeVars, patVars, regVars>>

\* The DetectedClone find_repo_results builds of a cluster row and its origins.
DetectedClone(c) ==
    [value |-> c.value, weight |-> c.weight,
     origins |-> {[file |-> o.file, line |-> o.line, col_offset |-> o.col_offset,
                   similarity |-> o.similarity] : o \in {x \in origins : x.cluster_id = c.id}}]

\* find_repo_results: the clusters of the commit and their origins
\* (lines 128-138).
SelectClusters(w) ==
    /\ wpc[w] = "select_clusters"
    /\ wlocal' = [wlocal EXCEPT ![w].outcome = Str(Outcome("DetectionResult",
           {DetectedClone(c) : c \in {x \in clusters : x.commit_id = wlocal[w].commit_id[1]}}))]
    /\ wpc' = [wpc EXCEPT ![w] = "finally"]
    /\ UNCHANGED <<repos, commits, clusters, origins, tx, conn, unbound, started, alocal, find>>
    /\ UNCHANGED <<treeVars, patVars, regVars>>

\* A statement of the call raises psycopg2.Error: handle_pg_error(ex, conn,
\* repo_id) and return "Database error" (lines 285-287).
DatabaseError(w) ==
    /\ wpc[w] \in {"find", "insert", "lookup", "select_commit", "select_clusters"}
    /\ Store(handle_pg_error(Database, wlocal[w].repo_id))
    /\ wlocal' = [wlocal EXCEPT ![w].outcome = Str(Outcome("str", "Database error"))]
    /\ wpc' = [wpc EXCEPT ![w] = "finally"]
    /\ UNCHANGED <<tx, conn, unbound, started, alocal, find>>
    /\ UNCHANGED <<treeVars, patVars, regVars>>

\* finally: conn.close() (lines 289-290)
Close(w) ==
    /\ wpc[w] = "finally"
    /\ conn' = [conn EXCEPT ![w] = IF @ = "open" THEN "closed" ELSE "closed again"]
    /\ wpc' = [wpc EXCEPT ![w] = "returned"]
    /\ UNCHANGED <<repos, commits, clusters, origins, tx, unbound, started, alocal, wlocal, find>>
    /\ UNCHANGED <<treeVars, patVars, regVars>>

\* The database after the analysis of StoredRepo by thread t1 (one cluster,
\* one pattern, the connection closed), before NewRepo is asked for.
AnalyzerInit ==
    /\ TreeIdle
    /\ phase = "analyzer"
    /\ PatternIdle
    /\ repos = {RepoRow(1, StoredRepo, "done")}
    /\ commits = {[id |-> commit_id["t1"], repo_id |-> Str(1), hash |-> HashOf(StoredRepo)]}
    /\ clusters = {[id |-> 1, commit_id |-> commit_id["t1"], value |-> Clone1.value,
                    weight |-> Clone1.match_weight]}
    /\ origins = {[cluster_id |-> 1, file |-> Clone1.origins[i].file,
                   line |-> Clone1.origins[i].line,
                   col_offset |-> Clone1.origins[i].col_offset,
                   similarity |-> Clone1.origins[i].similarity] : i \in 1..2}
    /\ patterns = {[id |-> 1, dump |-> "d1", hash |-> _get_md5("d1"), weight |-> 1,
                    class |-> "Name", xid |-> "t1"]}
    /\ pattern_instances = <<[pattern_id |-> Str(1), commit_id |-> commit_id["t1"],
                              file |-> "a.py", line |-> 1, col_offset |-> 0, xid |-> "t1"]>>
    /\ id_seq = 1
    /\ committed = {"t1"}
    /\ pc = [t \in Threads |-> IF t = "t1" THEN "exit" ELSE "idle"]
    /\ visited = [t \in Threads |->
                     IF t = "t1" THEN <<CHOOSE x \in CommitNodes : x.dump = "d1">> ELSE <<>>]
    /\ pattern_id = [t \in Threads |-> IF t = "t1" THEN Str(1) ELSE None]
    /\ waited = [t \in Threads |-> FALSE]
    /\ tx = [t \in Threads |-> <<>>]
    /\ conn = [p \in Procs |-> IF p = "t1" THEN "closed" ELSE "unbound"]
    /\ unbound = {}
    /\ started = <<[repo_info |-> Str(StoredRepo), repo_id |-> Str(1)]>>
    /\ alocal = [t \in Threads |->
                    IF t = "t1"
                    THEN [repo_info |-> Str(StoredRepo), repo_id |-> Str(1),
                          cloned |-> Str(TRUE), modules |-> Str(<<"a.py", "b.py">>),
                          result |-> Str(<<Clone1>>), cluster |-> 2, handled |-> FALSE]
                    ELSE NoThreadLocals]
    /\ wpc = [w \in Requests |-> "idle"]
    /\ wlocal = [w \in Requests |-> NoRequestLocals]
    /\ find = [pc |-> "idle"]

\* The steps of analyze_repo in thread t; the pattern extraction has no other
\* transaction to wait for here (RegistrySpec has).
AnalyzeRepo(t) ==
    \/ AConnect(t)
    \/ AConnectFail(t)
    \/ \E cloned \in BOOLEAN : CloneOrPull(t, cloned)
    \/ ErrCloneFail(t)
    \/ \E modules \in ModuleLists : GetModules(t, modules)
    \/ \E clones \in Results : Detect(t, clones)
    \/ InsertCommit(t)
    \/ InsertCluster(t)
    \/ UpdateDone(t)
    \/ LeaveTransaction(t)
    \/ ResultsFail(t)
    \/ \E node \in CommitNodes : NextNode(t, node)
    \/ Insert(t)
    \/ Select(t)
    \/ Record(t)
    \/ Commit(t)
    \/ Fail(t)
    \/ HandleError(t)
    \/ AClose(t)

\* The steps of get_repo_analysis in request w.
GetRepoAnalysis(w) ==
    \/ \E repo_path \in RequestPaths : Call(w, repo_path)
    \/ Connect(w)
    \/ ConnectFail(w)
    \/ FindByMetadata(w)
    \/ TryInsert(w)
    \/ Lookup(w)
    \/ SelectCommit(w)
    \/ SelectClusters(w)
    \/ DatabaseError(w)
    \/ Close(w)

AnalyzerNext ==
    \/ \E w \in Requests : GetRepoAnalysis(w)
    \/ AnalyzeRepo("t2")

AnalyzerSpec == AnalyzerInit /\ [][AnalyzerNext]_vars

\* The row of repos the thread t analyses, as a set (empty before it starts).
RepoOf(t) == {r \in repos : Str(r.id) = alocal[t].repo_id}

\* Request w has an outcome, reached with an open connection and without a
\* database error.
Answered(w) ==
    /\ wlocal[w].outcome # <<>>
    /\ conn[w] # "unbound"
    /\ wlocal[w].outcome[1].kind # "UnboundLocalError"
    /\ ~(wlocal[w].outcome[1].kind = "str"
         /\ wlocal[w].outcome[1].value = "Database error")

\* Request w asks for the repository, by its URL or by its name.
AsksFor(w, repo_info) ==
    \/ wlocal[w].repo_info = Str(repo_info)
    \/ wlocal[w].path = repo_info.name

\* C11: when a queued repository is cloned successfully and holds no module,
\* its analysis ends without an error status, and a get_repo_analysis call
\* made for it after that returns a DetectionResult with zero clusters.
C11_EmptyModuleSetGivesEmptyResult ==
    \A w \in Requests, t \in Threads :
        (/\ pc[t] = "exit"
         /\ alocal[t].cloned = Str(TRUE)
         /\ alocal[t].modules = Str(<<>>)
         /\ wlocal[w].late
         /\ AsksFor(w, alocal[t].repo_info[1])
         /\ Answered(w))
        => /\ \A r \in RepoOf(t) : r.status \notin {"err_clone", "err_analysis"}
           /\ wlocal[w].outcome[1].kind = "DetectionResult"
           /\ wlocal[w].outcome[1].value = {}

\* A step of request w while its path is not the path of a repository.
UnparsedStep(w) ==
    /\ wpc'[w] # wpc[w]
    /\ wlocal'[w].repo_info = None
    /\ wpc'[w] # "connect"

\* C12 (no side effect): a call whose path does not parse as a repository
\* inserts no repository row, changes none and starts no thread.
C12_UnparsedInsertsNothing ==
    \A w \in Requests :
        UnparsedStep(w) => (repos' = repos /\ started' = started)

\* C12 (outcome): such a call has one outcome: UserInputError when the path
\* has an invalid format or no stored repository matches, the summary of the
\* repository when exactly one matches, the list of matches when several do.
C12_UnparsedOutcome ==
    \A w \in Requests :
        (Answered(w) /\ wlocal[w].repo_info = None) =>
            LET o == wlocal[w].outcome[1]
                found == wlocal[w].repos
            IN  /\ ~fullmatch(wlocal[w].path) =>
                       o.kind = "UserInputError" /\ found = <<>>
                /\ (fullmatch(wlocal[w].path) /\ found = None) =>
                       o.kind = "UserInputError"
                /\ (fullmatch(wlocal[w].path) /\ found # None) =>
                       /\ found[1] # {}
                       /\ \A r \in found[1] : \E q \in repos : q.id = r.id
                       /\ Cardinality(found[1]) = 1 =>
                              /\ wlocal[w].repo_dict = Str(CHOOSE r \in found[1] : TRUE)
                              /\ o.kind \in {"status_desc", "DetectionResult", "str"}
                              /\ o.kind = "status_desc" =>
                                     /\ o.value = wlocal[w].repo_dict[1].status
                                     /\ o.value \in {"queue", "err_clone", "err_analysis"}
                              /\ o.kind # "status_desc" =>
                                     wlocal[w].repo_dict[1].status = "done"
                       /\ Cardinality(found[1]) > 1 =>
                              o.kind = "list" /\ o.value = found[1]
                /\ o.kind = "UserInputError" =>
                       ~fullmatch(wlocal[w].path) \/ found = None

\* C12: get_repo_analysis yields exactly one outcome per call for a path
\* that does not parse as a repository (UserInputError for an invalid format
\* or no match, the summary for one match, the list for several), and in all
\* these cases inserts no repository row and starts no analysis thread.
C12_UnparsedPathOutcomes ==
    [][C12_UnparsedInsertsNothing]_vars /\ []C12_UnparsedOutcome

\* A name matched both stored repositories and the call returned the list.
C12_Witness ==
    \E w \in Requests :
        /\ wpc[w] = "returned"
        /\ wlocal[w].repo_info = None
        /\ wlocal[w].outcome # <<>>
        /\ wlocal[w].outcome[1].kind = "list"
        /\ Cardinality(wlocal[w].outcome[1].value) = 2
        /\ Len(started) = 2

\* A step of get_repo_analysis that starts a thread has inserted the row of
\* the repository, with status queue, and starts the thread for that row.
C13_StartOnlyOnInsert ==
    started' # started =>
        /\ Len(started') = Len(started) + 1
        /\ LET s == started'[Len(started')]
           IN  /\ s.repo_id # None
               /\ s.repo_info # None
               /\ RepoConflict(repos, s.repo_info[1]) = {}
               /\ repos' = repos \cup {RepoRow(s.repo_id[1], s.repo_info[1], "queue")}
               /\ \E w \in Requests :
                      /\ wpc[w] = "insert"
                      /\ wlocal'[w].outcome # <<>>
                      /\ wlocal'[w].outcome[1].value =
                             "The repository has been added to the queue"

\* One row per repository, one thread start per row, and what each call for
\* a repository returns: the call that inserted the row has started the
\* thread and returns the queue message, any other call has started none and
\* returns the stored status or results of that row.
C13_OneThreadPerRow ==
    /\ \A r1 \in repos, r2 \in repos :
           (r1.url = r2.url \/ r1.id = r2.id) => r1 = r2
    /\ Len(started) = Cardinality(repos)
    /\ \A i \in DOMAIN started :
           /\ started[i].repo_id # None
           /\ \E r \in repos : Str(r.id) = started[i].repo_id
                               /\ r.url = started[i].repo_info[1].url
           /\ \A j \in DOMAIN started :
                  started[i].repo_id = started[j].repo_id => i = j
    /\ \A w \in Requests :
           (Answered(w) /\ wlocal[w].repo_info # None) =>
               LET o == wlocal[w].outcome[1]
               IN  IF wlocal[w].repo_id # None
                   THEN /\ o.kind = "str"
                        /\ o.value = "The repository has been added to the queue"
                        /\ \E i \in DOMAIN started :
                               /\ started[i].repo_id = wlocal[w].repo_id
                               /\ started[i].repo_info = wlocal[w].repo_info
                   ELSE /\ wlocal[w].repo_dict # None
                        /\ wlocal[w].repo_dict[1].url = wlocal[w].repo_info[1].url
                        /\ o.kind \in {"status_desc", "DetectionResult"}
                        /\ o.kind = "status_desc" =>
                               o.value = wlocal[w].repo_dict[1].status

CommitsOf(t) == {c \in commits : c.repo_id = alocal[t].repo_id}
ClustersOf(t) == {c \in clusters : c.commit_id = commit_id[t]}
OriginsOf(t) == {o \in origins : \E c \in ClustersOf(t) : o.cluster_id = c.id}

\* The result of thread t as find_repo_results would rebuild it.
Detected(t) ==
    {[value |-> c.value, weight |-> c.match_weight, origins |-> Range(c.origins)] :
        c \in Range(alocal[t].result[1])}

\* The visible tables hold nothing of the analysis of t and its repository
\* is not done, or hold all of it.
NothingStored(t) ==
    /\ CommitsOf(t) = {}
    /\ ClustersOf(t) = {}
    /\ OriginsOf(t) = {}
    /\ \A r \in RepoOf(t) : r.status # "done"
AllStored(t) ==
    /\ alocal[t].result # <<>>
    /\ CommitsOf(t) = {[id |-> commit_id[t], repo_id |-> alocal[t].repo_id,
                        hash |-> HashOf(alocal[t].repo_info[1])]}
    /\ Cardinality(ClustersOf(t)) = Len(alocal[t].result[1])
    /\ {DetectedClone(c) : c \in ClustersOf(t)} = Detected(t)
    /\ \A r \in RepoOf(t) : r.status \in {"done", "err_analysis"}

\* C14 (visible states): of every analysis the tables show nothing or all;
\* a request that read status done finds the commit and gets every cluster
\* with every origin.
C14_AllOrNothing ==
    /\ \A t \in Threads :
           alocal[t].repo_id # None =>
               /\ NothingStored(t) \/ AllStored(t)
               /\ (\E r \in RepoOf(t) : r.status = "done") => AllStored(t)
    /\ \A w \in Requests :
           (wlocal[w].repo_dict # None /\ wlocal[w].repo_dict[1].status = "done") =>
               /\ wpc[w] = "select_clusters" => wlocal[w].commit_id # None
               /\ Answered(w) =>
                      /\ wlocal[w].outcome[1].kind = "DetectionResult"
                      /\ \E t \in Threads :
                             /\ alocal[t].repo_id = Str(wlocal[w].repo_dict[1].id)
                             /\ wlocal[w].outcome[1].value = Detected(t)

\* C14 (steps): the results appear in one step, together with status done,
\* and a failed statement of the block leaves nothing of them.
C14_StoredInOneStep ==
    \A t \in Threads :
        /\ (NothingStored(t) /\ ~NothingStored(t)') =>
               (pc[t] = "leave" /\ AllStored(t)' /\ \A r \in RepoOf(t)' : r.status = "done")
        /\ (pc[t] \in {"insert_commit", "insert_cluster", "leave"} /\ pc'[t] = "failed") =>
               NothingStored(t)'

\* C14: the commit row, every cluster row, every origin row and the change
\* to status done are committed in one transaction: in every state visible
\* to a get_repo_analysis call a done repository has its commit with all
\* clusters and origins (find_repo_results reports neither 'No commit has
\* been analyzed yet' nor a partial set), and a failed insert leaves none.
C14_ResultsStoredAtOnce == [][C14_StoredInOneStep]_vars /\ []C14_AllOrNothing

\* A call that began while the analysis was running read status done and
\* got both clusters, the thread being at its pattern extraction.
C14_Witness ==
    \E w \in Requests :
        /\ wlocal[w].repo_info = Str(NewRepo)
        /\ ~wlocal[w].late
        /\ wlocal[w].outcome # <<>>
        /\ wlocal[w].outcome[1].kind = "DetectionResult"
        /\ Cardinality(wlocal[w].outcome[1].value) = 2
        /\ pc["t2"] \in {"next", "insert", "select", "record"}

\* Thread t is in, or past, its pattern extraction.
Extracting(t) ==
    pc[t] \in {"next", "insert", "select", "record", "done"} \/ visited[t] # <<>>

\* C15 (order): while and after a thread extracts patterns, the results of
\* its commit are committed: no statement of the first block is pending.
C15_ExtractionAfterCommit ==
    \A t \in Threads :
        Extracting(t) =>
            /\ tx[t] = <<>>
            /\ AllStored(t)
            /\ pc[t] \in {"next", "insert", "select", "record", "done"} =>
                   \A r \in RepoOf(t) : r.status = "done"

\* C15 (own transaction): no step removes a committed commit, cluster or
\* origin row, and a thread whose extraction failed has no pattern_instances
\* row of its commit and no patterns row.
C15_NoCommittedRowRemoved ==
    /\ commits \subseteq commits'
    /\ clusters \subseteq clusters'
    /\ origins \subseteq origins'
C15_FailedExtractionLeavesNothing ==
    \A t \in Threads :
        (Extracting(t) /\ (pc[t] = "failed" \/ alocal[t].handled)) =>
            /\ InstancesOf(t) = <<>>
            /\ \A r \in patterns : r.xid # t
            /\ AllStored(t)

\* C15: pattern extraction for a commit starts only after the transaction
\* storing the commit's clusters and the done status has committed and runs
\* in a transaction of its own: a failure during it removes no committed
\* cluster or origin row and leaves no pattern_instances row of the commit.
C15_ExtractionInOwnTransaction ==
    /\ [][C15_NoCommittedRowRemoved]_vars
    /\ [](C15_ExtractionAfterCommit /\ C15_FailedExtractionLeavesNothing)

\* The extraction failed at its second node, after an occurrence had been
\* recorded: both clusters are still stored and no occurrence is.
C15_Witness ==
    /\ pc["t2"] = "exit"
    /\ alocal["t2"].handled
    /\ Len(visited["t2"]) = 2
    /\ Cardinality(ClustersOf("t2")) = 2
    /\ Cardinality(OriginsOf("t2")) = 4
    /\ InstancesOf("t2") = <<>>

\* C16: when cloning or pulling fails (and the status update goes through),
\* analyze_repo sets the status to err_clone, parses no modules, runs no
\* detection, inserts no commit, cluster, origin, pattern or pattern
\* instance row, and closes its connection.
C16_CloneFailure ==
    \A t \in Threads :
        (alocal[t].cloned = Str(FALSE) /\ pc[t] # "failed" /\ ~alocal[t].handled) =>
            /\ pc[t] \in {"finally", "exit"}
            /\ RepoOf(t) # {}
            /\ \A r \in RepoOf(t) : r.status = "err_clone"
            /\ alocal[t].modules = <<>>
            /\ alocal[t].result = <<>>
            /\ tx[t] = <<>>
            /\ NothingStored(t)
            /\ visited[t] = <<>>
            /\ InstancesOf(t) = <<>>
            /\ \A r \in patterns : r.xid # t
            /\ pc[t] = "exit" => conn[t] = "closed"

\* The clone failed, the thread has ended and a later call reports err_clone.
C16_Witness ==
    /\ alocal["t2"].cloned = Str(FALSE)
    /\ pc["t2"] = "exit"
    /\ conn["t2"] = "closed"
    /\ \E w \in Requests :
           /\ wlocal[w].late
           /\ wlocal[w].outcome # <<>>
           /\ wlocal[w].outcome[1].kind = "status_desc"
           /\ wlocal[w].outcome[1].value = "err_clone"

\* C18: every repository inserted with status queue leaves that status:
\* once its analysis thread has run to completion, on whatever path through
\* analyze_repo, its status is done, err_clone or err_analysis.
C18_QueuedRepoLeavesQueue ==
    \A t \in Threads :
        pc[t] = "exit" =>
            /\ RepoOf(t) # {}
            /\ \A r \in RepoOf(t) : r.status \in {"done", "err_clone", "err_analysis"}

\* Process p has left get_repo_analysis or analyze_repo.
Finished(p) ==
    IF p \in Threads THEN pc[p] \in {"exit", "crashed"} ELSE wpc[p] = "returned"

\* C19: on every exit path of get_repo_analysis and analyze_repo the
\* connection is closed exactly once if it was opened, and neither the error
\* handler nor the final cleanup uses a connection that was not opened.
C19_ConnectionClosedOnce ==
    /\ unbound = {}
    /\ \A p \in Procs :
           /\ conn[p] # "closed again"
           /\ Finished(p) => conn[p] \in {"closed", "unbound"}
           /\ conn[p] = "open" => ~Finished(p)

=============================================================================
